---- MODULE Spec2Model ----
(***************************************************************************)
(* Model of calc_seqeval_scores.py: the evaluation run that normalizes the *)
(* gold and the predicted token records, unpacks and flattens them,        *)
(* re-chunks both label streams into windows, counts the token-level       *)
(* confusion dictionary and asks for the strict IOB2 span report.          *)
(*                                                                         *)
(* A Python value (the result of json.load) is a record                    *)
(*     [k |-> "str" | "int" | "list" | "none", s |-> text, items |-> seq]  *)
(* so that values of different Python types can be compared, as Python's   *)
(* == does, without a type error.                                          *)
(***************************************************************************)
EXTENDS Integers, Sequences, FiniteSets, TLC

VARIABLES
    pc,                   \* position of the run in the script
    gold_in,              \* --true file content as loaded (kept for reference)
    pred_in,              \* --pred file content as loaded (kept for reference)
    y_true_file_content,  \* gold content, normalized in place
    y_pred_file_content,  \* predicted content, normalized in place
    y_true,               \* gold labels: unpacked, then flat, then windows
    y_pred,               \* predicted labels: unpacked, then flat, then windows
    flat_true,            \* the flat gold sequence as it was before re-chunking
    flat_pred,            \* the flat predicted sequence before re-chunking
    W,                    \* window size used by the re-chunking
    performance_dict,     \* result of performance_measure, or PyNone
    report                \* result of classification_report, or PyNone

vars == <<pc, gold_in, pred_in, y_true_file_content, y_pred_file_content,
          y_true, y_pred, flat_true, flat_pred, W, performance_dict, report>>

-----------------------------------------------------------------------------
(* Bounds of the model *)

MaxRecords == 2     \* token records per sentence
MaxSentences == 2   \* sentences per text
MaxTokens == 2      \* token records per text, over all its sentences
MaxFlat == 3        \* length of an already-flat list of bare labels
MaxLen == 2         \* length of a flat label sequence given to the reshaper
MaxW == 3           \* window sizes 1..MaxW are tried beside the script's own

(* Program constant: the window size of the script *)
words_per_sentence_amount == 20

-----------------------------------------------------------------------------
(* Python values *)

PyStr(s) == [k |-> "str", s |-> s, items |-> <<>>]
PyInt(s) == [k |-> "int", s |-> s, items |-> <<>>]
PyList(items) == [k |-> "list", s |-> "", items |-> items]
PyNone == [k |-> "none", s |-> "", items |-> <<>>]

Min(a, b) == IF a <= b THEN a ELSE b

SeqsUpTo(S, n) == UNION {[1..m -> S] : m \in 0..n}

RECURSIVE Concat(_)
Concat(ss) == IF ss = <<>> THEN <<>> ELSE Head(ss) \o Concat(Tail(ss))

\* iterating a Python value: the characters of a str, the items of a list
IsIterable(v) == v.k \in {"str", "list"}
Iter(v) == IF v.k = "str"
           THEN [i \in 1..Len(v.s) |-> PyStr(SubSeq(v.s, i, i))]
           ELSE v.items

\* v[0]: defined for a non-empty str or list
HasIndex0(v) == IsIterable(v) /\ Len(Iter(v)) > 0
Index0(v) == Iter(v)[1]

-----------------------------------------------------------------------------
(* Tag normalizer *)

\* mutant: the length test is lost and only index 0 is deleted
RECURSIVE delete_only_idx_0(_)
delete_only_idx_0(input) ==
    IF input.k = "list"
    THEN IF Len(input.items) > 1 /\ input.items[1].k = "str"
         THEN LET rest == Tail(input.items)
              IN  PyList(<<IF rest[1] = PyStr("UNK") THEN PyStr("O")
                           ELSE rest[1]>> \o Tail(rest))
         ELSE PyList([i \in 1..Len(input.items) |->
                  delete_only_idx_0(input.items[i])])
    ELSE input

RECURSIVE delete_idx_0_and_2_of_string_list_with_3_members(_)
delete_idx_0_and_2_of_string_list_with_3_members(input) ==
    IF input.k = "list"
    THEN IF Len(input.items) = 3 /\ input.items[1].k = "str"
         THEN LET kept == input.items[2]
              IN  PyList(<<IF kept = PyStr("UNK") THEN PyStr("O") ELSE kept>>)
         ELSE PyList([i \in 1..Len(input.items) |->
                  delete_idx_0_and_2_of_string_list_with_3_members(input.items[i])])
    ELSE input

-----------------------------------------------------------------------------
(* Unpacking and flattening *)

\* unpack_strings_out_of_lists raises when a sentence cannot be iterated or
\* an item has no element 0
UnpackRaises(input) ==
    \/ ~IsIterable(input)
    \/ \E i \in 1..Len(Iter(input)) :
          LET sentence == Iter(input)[i]
          IN  \/ ~IsIterable(sentence)
              \/ \E j \in 1..Len(Iter(sentence)) : ~HasIndex0(Iter(sentence)[j])

unpack_strings_out_of_lists(input) ==
    PyList([i \in 1..Len(Iter(input)) |->
        LET sentence == Iter(input)[i]
        IN  PyList([j \in 1..Len(Iter(sentence)) |-> Index0(Iter(sentence)[j])])])

\* the generator flatten: the non-list leaves of a list, in order
RECURSIVE FlattenSeq(_)
FlattenSeq(items) ==
    IF items = <<>> THEN <<>>
    ELSE LET item == Head(items)
         IN  (IF item.k = "list" THEN FlattenSeq(item.items) ELSE <<item>>)
             \o FlattenSeq(Tail(items))

flatten(list) == PyList(FlattenSeq(list.items))

-----------------------------------------------------------------------------
(* Re-chunking into windows *)

\* mutant: the slice stops one element early
Slice_OneShort(items, a, b) == SubSeq(items, a + 1, Min(b, Len(items)) - 1)

\* list[a:b] with 0 <= a <= b
Slice(items, a, b) == SubSeq(items, a + 1, Min(b, Len(items)))

\* range(0, n, step) as the sequence of its values
RangeSeq(n, step) == [i \in 1..((n + step - 1) \div step) |-> (i - 1) * step]

\* mutant: the windows are a tenth of the size asked for
Rechunk_NarrowWindow(flat, w) ==
    LET n == IF w >= 10 THEN w \div 10 ELSE w
        starts == RangeSeq(Len(flat.items), n)
    IN  PyList([i \in 1..Len(starts) |->
                   PyList(Slice(flat.items, starts[i], starts[i] + n))])

Rechunk(flat, w) ==
    LET starts == RangeSeq(Len(flat.items), w)
    IN  PyList([i \in 1..Len(starts) |->
                   PyList(Slice(flat.items, starts[i], starts[i] + w))])

-----------------------------------------------------------------------------
(* Entity type catalog: the keys of current_tei_writer_mapping *)

current_tei_writer_mapping_keys ==
    {"Ort-Container", "Ort-Container-BK", "Ort-Objekt", "Ort-Objekt-BK",
     "Ort-Abstrakt", "Ort-Abstrakt-BK", "Ort-ALT",
     "Bewegung-Subjekt", "Bewegung-Objekt", "Bewegung-Licht",
     "Bewegung-Schall", "Bewegung-Geruch", "Bewegung-ALT",
     "Dimensionierung-Menge", "Dimensionierung-Abstand",
     "Dimensionierung-Groesse", "Dimensionierung-ALT",
     "Richtung", "Richtung-ALT", "Positionierung", "Positionierung-ALT"}

OLabel == PyStr("O")
BLabel(entity) == PyStr("B-" \o entity)
ILabel(entity) == PyStr("I-" \o entity)

-----------------------------------------------------------------------------
(* Token-level confusion counts (performance_measure) *)

\* the one-level flattening at the head of performance_measure
IsNested(y) == \E i \in 1..Len(y.items) : y.items[i].k = "list"
FlattenOnce(y) == Concat([i \in 1..Len(y.items) |-> Iter(y.items[i])])

\* zip(y_true, y_pred) stops at the shorter sequence
ZipLen(t, p) == Min(Len(t), Len(p))

\* mutant: positions where both labels are O are not filtered out
TP_all_Unfiltered(t, p) ==
    Cardinality({i \in 1..ZipLen(t, p) : t[i] = p[i]})

TP_all(t, p) ==
    Cardinality({i \in 1..ZipLen(t, p) :
        (t[i] # OLabel \/ p[i] # OLabel) /\ t[i] = p[i]})

TP_entity(t, p, entity) ==
    Cardinality({i \in 1..ZipLen(t, p) :
        (t[i] = BLabel(entity) \/ t[i] = ILabel(entity)) /\ t[i] = p[i]})

\* mutant: a predicted O that differs from the gold label counts as well
FP_all_AnyMismatch(t, p) ==
    Cardinality({i \in 1..ZipLen(t, p) : t[i] # p[i]})

FP_all(t, p) ==
    Cardinality({i \in 1..ZipLen(t, p) : t[i] # p[i] /\ p[i] # OLabel})

FP_entity(t, p, entity) ==
    Cardinality({i \in 1..ZipLen(t, p) :
        (p[i] = BLabel(entity) \/ p[i] = ILabel(entity))
        /\ t[i] # p[i] /\ p[i] # OLabel})

FN_all(t, p) ==
    Cardinality({i \in 1..ZipLen(t, p) : t[i] # OLabel /\ p[i] = OLabel})

\* mutant: every gold position of the type counts, whatever was predicted
FN_entity_AnyPrediction(t, p, entity) ==
    Cardinality({i \in 1..ZipLen(t, p) :
        (t[i] = BLabel(entity) \/ t[i] = ILabel(entity)) /\ t[i] # OLabel})

FN_entity(t, p, entity) ==
    Cardinality({i \in 1..ZipLen(t, p) :
        (t[i] = BLabel(entity) \/ t[i] = ILabel(entity))
        /\ t[i] # OLabel /\ p[i] = OLabel})

TN(t, p) ==
    Cardinality({i \in 1..ZipLen(t, p) : t[i] = p[i] /\ p[i] = OLabel})

\* the dictionary: the keys TP_<entity>, FP_<entity>, FN_<entity> are the
\* fields TP, FP, FN applied to the entity
performance_measure(yt, yp) ==
    LET nested == IsNested(yt)
        t == IF nested THEN FlattenOnce(yt) ELSE yt.items
        p == IF nested THEN FlattenOnce(yp) ELSE yp.items
    IN  [TP_all |-> TP_all(t, p),
         FP_all |-> FP_all(t, p),
         FN_all |-> FN_all(t, p),
         TN     |-> TN(t, p),
         TP |-> [e \in current_tei_writer_mapping_keys |-> TP_entity(t, p, e)],
         FP |-> [e \in current_tei_writer_mapping_keys |-> FP_entity(t, p, e)],
         FN |-> [e \in current_tei_writer_mapping_keys |-> FN_entity(t, p, e)]]

-----------------------------------------------------------------------------
(* Strict IOB2 span report: classification_report(mode="strict",           *)
(* scheme=IOB2) of the seqeval package, which the script calls.  A label   *)
(* is read as prefix (its first character) and tag (the rest, without the  *)
(* delimiter).                                                             *)

Prefix(label) == SubSeq(label.s, 1, 1)
Tag(label) ==
    IF Len(label.s) >= 2 /\ SubSeq(label.s, 2, 2) = "-"
    THEN SubSeq(label.s, 3, Len(label.s))
    ELSE SubSeq(label.s, 2, Len(label.s))

\* a label the IOB2 scheme accepts
ValidIOB2(label) ==
    label.k = "str" /\ Len(label.s) > 0 /\ Prefix(label) \in {"I", "O", "B"}

\* the two inputs are lists of lists of the same lengths
ConsistentLength(yt, yp) ==
    /\ Len(yt.items) + Len(yp.items) > 0
    /\ \A i \in 1..Len(yt.items) : yt.items[i].k = "list"
    /\ \A i \in 1..Len(yp.items) : yp.items[i].k = "list"
    /\ Len(yt.items) = Len(yp.items)
    /\ \A i \in 1..Len(yt.items) :
          Len(yt.items[i].items) = Len(yp.items[i].items)

ReportRaises(yt, yp) ==
    \/ ~ConsistentLength(yt, yp)
    \/ /\ ConsistentLength(yt, yp)
       /\ \E i \in 1..Len(yt.items) :
             \E j \in 1..Len(yt.items[i].items) :
                ~(ValidIOB2(yt.items[i].items[j])
                  /\ ValidIOB2(yp.items[i].items[j]))

\* the last position of the span that begins at position b of a window:
\* it runs through the I- labels of the same tag that follow b immediately
SpanEnd(window, b) ==
    CHOOSE e \in b..Len(window) :
        /\ \A k \in (b + 1)..e :
              Prefix(window[k]) = "I" /\ Tag(window[k]) = Tag(window[b])
        /\ \/ e = Len(window)
           \/ ~(Prefix(window[e + 1]) = "I"
                /\ Tag(window[e + 1]) = Tag(window[b]))

\* spans of one window: <<window number, tag, first, last>>; only B- begins one
Spans(window, n) ==
    {<<n, Tag(window[b]), b, SpanEnd(window, b)>> :
        b \in {i \in 1..Len(window) : Prefix(window[i]) = "B"}}

Entities(y) == UNION {Spans(y.items[n].items, n) : n \in 1..Len(y.items)}

OfType(entities, type) == {e \in entities : e[2] = type}

\* a score num/den, 0 when den = 0: reported as the pair [num, den]
Score(num, den) == IF den = 0 THEN [num |-> 0, den |-> 1]
                   ELSE [num |-> num, den |-> den]

classification_report(yt, yp) ==
    LET et == Entities(yt)
        ep == Entities(yp)
        types == {e[2] : e \in et \cup ep}
        row(t, p) ==
           [support   |-> Cardinality(t),
            predicted |-> Cardinality(p),
            matched   |-> Cardinality(t \cap p),
            precision |-> Score(Cardinality(t \cap p), Cardinality(p)),
            recall    |-> Score(Cardinality(t \cap p), Cardinality(t)),
            f1        |-> Score(2 * Cardinality(t \cap p),
                                Cardinality(t) + Cardinality(p))]
    IN  [types |-> types,
         rows  |-> [type \in types |-> row(OfType(et, type), OfType(ep, type))],
         micro |-> row(et, ep)]

-----------------------------------------------------------------------------
(* Inputs: what json.load can hand to the run *)

Record(label) == PyList(<<PyStr("Ort"), PyStr(label), PyInt("0")>>)
Records == {Record(label) : label \in {"UNK", "B-Ort-Objekt"}}

\* token records of the wrong arity
ShortRecord == PyList(<<PyStr("Ort"), PyStr("B-Ort-Objekt")>>)
LongRecord ==
    PyList(<<PyStr("Ort"), PyStr("B-Ort-Objekt"), PyInt("0"), PyInt("0")>>)
MalformedRecords == {ShortRecord, LongRecord}

Sentences ==
    {PyList(x) : x \in SeqsUpTo(Records \cup MalformedRecords, MaxRecords)}

RECURSIVE SumLen(_)
SumLen(ss) == IF ss = <<>> THEN 0 ELSE Len(Head(ss).items) + SumLen(Tail(ss))

Texts ==
    {PyList(x) : x \in {y \in SeqsUpTo(Sentences, MaxSentences) :
                           SumLen(y) <= MaxTokens}}

\* lists of bare labels, already normalized
FlatLabelLists ==
    {PyList(x) : x \in SeqsUpTo({PyStr("O"), PyStr("B-Ort-Objekt")}, MaxFlat)}

\* records at depth 1 (a list of records), 2 (a list of sentences) and
\* 3 (a list of texts), and flat label lists
FileContents ==
    Sentences \cup Texts \cup {PyList(<<t>>) : t \in Texts} \cup FlatLabelLists

\* flat label sequences for the reshaper and the metrics engine
MeasureLabels ==
    {PyStr(l) : l \in {"O", "B-Ort-Objekt", "I-Ort-Objekt", "B-Richtung",
                       "B-Person"}}
FlatSeqs == {PyList(x) : x \in SeqsUpTo(MeasureLabels, MaxLen)}

ExampleGold == PyList(<<PyStr("O"), PyStr("B-Ort-Objekt"),
                        PyStr("I-Ort-Objekt"), PyStr("O")>>)
ExamplePred == PyList(<<PyStr("O"), PyStr("B-Ort-Objekt"),
                        PyStr("O"), PyStr("O")>>)

WindowSizes == (1..MaxW) \cup {words_per_sentence_amount}

-----------------------------------------------------------------------------
(* The run *)

Init ==
    /\ pc = "start"
    /\ gold_in \in FileContents
    /\ pred_in \in FileContents
    /\ y_true_file_content = gold_in
    /\ y_pred_file_content = pred_in
    /\ y_true = PyNone
    /\ y_pred = PyNone
    /\ flat_true = PyNone
    /\ flat_pred = PyNone
    /\ W = words_per_sentence_amount
    /\ performance_dict = PyNone
    /\ report = PyNone

Normalize ==
    /\ pc = "start"
    /\ y_true_file_content' =
          delete_idx_0_and_2_of_string_list_with_3_members(y_true_file_content)
    /\ y_pred_file_content' =
          delete_idx_0_and_2_of_string_list_with_3_members(y_pred_file_content)
    /\ pc' = "normalized"
    /\ UNCHANGED <<gold_in, pred_in, y_true, y_pred, flat_true, flat_pred, W,
                   performance_dict, report>>

Unpack ==
    /\ pc = "normalized"
    /\ ~UnpackRaises(y_true_file_content)
    /\ ~UnpackRaises(y_pred_file_content)
    /\ y_true' = unpack_strings_out_of_lists(y_true_file_content)
    /\ y_pred' = unpack_strings_out_of_lists(y_pred_file_content)
    /\ pc' = "unpacked"
    /\ UNCHANGED <<gold_in, pred_in, y_true_file_content, y_pred_file_content,
                   flat_true, flat_pred, W, performance_dict, report>>

UnpackFails ==
    /\ pc = "normalized"
    /\ UnpackRaises(y_true_file_content) \/ UnpackRaises(y_pred_file_content)
    /\ pc' = "error"
    /\ UNCHANGED <<gold_in, pred_in, y_true_file_content, y_pred_file_content,
                   y_true, y_pred, flat_true, flat_pred, W, performance_dict,
                   report>>

Flatten ==
    /\ pc = "unpacked"
    /\ y_true' = flatten(y_true)
    /\ y_pred' = flatten(y_pred)
    /\ flat_true' = y_true'
    /\ flat_pred' = y_pred'
    /\ pc' = "flattened"
    /\ UNCHANGED <<gold_in, pred_in, y_true_file_content, y_pred_file_content,
                   W, performance_dict, report>>

Reshape ==
    /\ pc = "flattened"
    /\ y_true' = Rechunk(y_true, W)
    /\ y_pred' = Rechunk(y_pred, W)
    /\ pc' = "chunked"
    /\ UNCHANGED <<gold_in, pred_in, y_true_file_content, y_pred_file_content,
                   flat_true, flat_pred, W, performance_dict, report>>

Measure ==
    /\ pc = "chunked"
    /\ performance_dict' = performance_measure(y_true, y_pred)
    /\ pc' = "measured"
    /\ UNCHANGED <<gold_in, pred_in, y_true_file_content, y_pred_file_content,
                   y_true, y_pred, flat_true, flat_pred, W, report>>

Report ==
    /\ pc = "measured"
    /\ ~ReportRaises(y_true, y_pred)
    /\ report' = classification_report(y_true, y_pred)
    /\ pc' = "done"
    /\ UNCHANGED <<gold_in, pred_in, y_true_file_content, y_pred_file_content,
                   y_true, y_pred, flat_true, flat_pred, W, performance_dict>>

ReportFails ==
    /\ pc = "measured"
    /\ ReportRaises(y_true, y_pred)
    /\ pc' = "error"
    /\ UNCHANGED <<gold_in, pred_in, y_true_file_content, y_pred_file_content,
                   y_true, y_pred, flat_true, flat_pred, W, performance_dict,
                   report>>

Next ==
    \/ Normalize
    \/ Unpack
    \/ UnpackFails
    \/ Flatten
    \/ Reshape
    \/ Measure
    \/ Report
    \/ ReportFails

Spec == Init /\ [][Next]_vars

-----------------------------------------------------------------------------
(* The reshaper and the metrics engine on flat label sequences *)

InitMeasure ==
    /\ pc = "flattened"
    /\ gold_in = PyNone
    /\ pred_in = PyNone
    /\ y_true_file_content = PyNone
    /\ y_pred_file_content = PyNone
    /\ \/ y_true \in FlatSeqs /\ y_pred \in FlatSeqs
       \/ y_true = ExampleGold /\ y_pred = ExamplePred
    /\ flat_true = y_true
    /\ flat_pred = y_pred
    /\ W \in WindowSizes
    /\ performance_dict = PyNone
    /\ report = PyNone

NextMeasure ==
    \/ Reshape
    \/ Measure
    \/ Report
    \/ ReportFails

SpecMeasure == InitMeasure /\ [][NextMeasure]_vars

-----------------------------------------------------------------------------
(* The tag normalizer applied, and applied again to its own result *)

InitNormalizer ==
    /\ pc = "start"
    /\ gold_in \in FileContents
    /\ pred_in = PyNone
    /\ y_true_file_content = gold_in
    /\ y_pred_file_content = PyNone
    /\ y_true = PyNone
    /\ y_pred = PyNone
    /\ flat_true = PyNone
    /\ flat_pred = PyNone
    /\ W = words_per_sentence_amount
    /\ performance_dict = PyNone
    /\ report = PyNone

NormalizeAgain ==
    /\ pc = "normalized"
    /\ y_true_file_content' =
          delete_idx_0_and_2_of_string_list_with_3_members(y_true_file_content)
    /\ y_pred_file_content' =
          delete_idx_0_and_2_of_string_list_with_3_members(y_pred_file_content)
    /\ pc' = "renormalized"
    /\ UNCHANGED <<gold_in, pred_in, y_true, y_pred, flat_true, flat_pred, W,
                   performance_dict, report>>

NextNormalizer ==
    \/ Normalize
    \/ NormalizeAgain

SpecNormalizer == InitNormalizer /\ [][NextNormalizer]_vars

-----------------------------------------------------------------------------
(* Properties *)

Measured == pc \in {"measured", "done"} \/ (pc = "error" /\ y_true # PyNone)
Flattened == flat_true # PyNone
Chunked == pc \in {"chunked", "measured", "done"}
    \/ (pc = "error" /\ y_true # PyNone)
EqualLength == Len(flat_true.items) = Len(flat_pred.items)
Positions == 1..Len(flat_true.items)
Gold(i) == flat_true.items[i]
Pred(i) == flat_pred.items[i]

IsOfType(label, type) ==
    label = PyStr("B-" \o type) \/ label = PyStr("I-" \o type)
InCatalog(label) ==
    \E type \in current_tei_writer_mapping_keys : IsOfType(label, type)

RECURSIVE SumOver(_, _)
SumOver(f, S) ==
    IF S = {} THEN 0
    ELSE LET x == CHOOSE y \in S : TRUE IN f[x] + SumOver(f, S \ {x})

\* C1: for equal-length gold and predicted sequences the four aggregate
\* counters of the confusion dictionary add up to the number of positions.
C1_AggregatesPartitionPositions ==
    (Measured /\ EqualLength) =>
        performance_dict.TP_all + performance_dict.FP_all
        + performance_dict.FN_all + performance_dict.TN
            = Len(flat_true.items)

C1_Witness ==
    /\ pc = "measured"
    /\ EqualLength
    /\ Len(flat_true.items) = 4
    /\ performance_dict.TP_all = 1
    /\ performance_dict.FN_all = 1
    /\ performance_dict.TN = 2

\* C2: when the flattened gold and predicted sequences differ in length, no
\* confusion dictionary is computed.
C2_NoMetricOnLengthMismatch ==
    (Flattened /\ ~EqualLength) => performance_dict = PyNone

\* C7: the windows, concatenated in order, are the flat sequence; their
\* lengths add up to its length; flat sequences of equal length give the
\* same number of windows with the same lengths.
C7_RechunkPreservesSequence ==
    Chunked =>
        /\ FlattenOnce(y_true) = flat_true.items
        /\ FlattenOnce(y_pred) = flat_pred.items
        /\ SumLen(y_true.items) = Len(flat_true.items)
        /\ SumLen(y_pred.items) = Len(flat_pred.items)
        /\ EqualLength =>
              /\ Len(y_true.items) = Len(y_pred.items)
              /\ \A n \in 1..Len(y_true.items) :
                    Len(y_true.items[n].items) = Len(y_pred.items[n].items)

C7_Witness ==
    /\ pc = "chunked"
    /\ W = 1
    /\ EqualLength
    /\ Len(flat_true.items) = 2
    /\ Len(y_true.items) = 2
    /\ flat_true.items[1] # flat_true.items[2]

\* C8: for every catalog type T and equal-length sequences, TP_T counts
\* the positions whose gold label is of type T and equals the predicted
\* label, FP_T those whose predicted label is of type T and differs from the
\* gold label, FN_T those whose gold label is of type T and whose predicted
\* label is O; a single position with gold type T and predicted type U # T
\* counts in FP_U and in no other per-type counter.
C8_PerTypeCounts ==
    (Measured /\ EqualLength) =>
        /\ \A type \in current_tei_writer_mapping_keys :
              /\ performance_dict.TP[type] = Cardinality({i \in Positions :
                    IsOfType(Gold(i), type) /\ Gold(i) = Pred(i)})
              /\ performance_dict.FP[type] = Cardinality({i \in Positions :
                    IsOfType(Pred(i), type) /\ Gold(i) # Pred(i)})
              /\ performance_dict.FN[type] = Cardinality({i \in Positions :
                    IsOfType(Gold(i), type) /\ Pred(i) = OLabel})
        /\ \A T, U \in current_tei_writer_mapping_keys :
              (/\ T # U
               /\ Len(flat_true.items) = 1
               /\ IsOfType(Gold(1), T)
               /\ IsOfType(Pred(1), U)) =>
                  \A type \in current_tei_writer_mapping_keys :
                     /\ performance_dict.TP[type] = 0
                     /\ performance_dict.FN[type] = 0
                     /\ performance_dict.FP[type] = IF type = U THEN 1 ELSE 0

C8_Witness ==
    /\ pc = "measured"
    /\ flat_true.items = <<PyStr("I-Ort-Objekt")>>
    /\ flat_pred.items = <<PyStr("B-Richtung")>>
    /\ performance_dict.FP["Richtung"] = 1
    /\ performance_dict.TP["Ort-Objekt"] = 0
    /\ performance_dict.FN["Ort-Objekt"] = 0

\* C9: for gold [[O, B-Ort-Objekt, I-Ort-Objekt, O]] and predicted
\* [[O, B-Ort-Objekt, O, O]], in one window, strict span scoring of
\* Ort-Objekt gives gold span count 1, predicted span count 1 (the lone
\* B-Ort-Objekt is a span), matched count 0, and recall, precision, F1 of 0.
IsExampleRun ==
    /\ flat_true = ExampleGold
    /\ flat_pred = ExamplePred
    /\ W = words_per_sentence_amount
    /\ pc = "done"

C9_ExampleScores ==
    IsExampleRun =>
        /\ y_true.items = <<ExampleGold>>
        /\ y_pred.items = <<ExamplePred>>
        /\ "Ort-Objekt" \in report.types
        /\ report.rows["Ort-Objekt"].support = 1
        /\ report.rows["Ort-Objekt"].predicted = 1
        /\ report.rows["Ort-Objekt"].matched = 0
        /\ report.rows["Ort-Objekt"].recall.num = 0
        /\ report.rows["Ort-Objekt"].precision.num = 0
        /\ report.rows["Ort-Objekt"].f1.num = 0

\* C9 as first stated: the predicted span count of the example is 0.
C9_PredictedCountZero ==
    IsExampleRun =>
        /\ report.rows["Ort-Objekt"].support = 1
        /\ report.rows["Ort-Objekt"].predicted = 0
        /\ report.rows["Ort-Objekt"].matched = 0

C9_Witness == IsExampleRun /\ report.rows["Ort-Objekt"].support = 1

\* C10: for equal-length sequences the per-type counters, summed over the
\* catalog, never exceed the aggregates; what the aggregate has more is
\* exactly the positions counted for a non-O label whose type is outside the
\* catalog, so the sums are equal when every non-O label is of a catalog type.
C10_PerTypeWithinAggregates ==
    (Measured /\ EqualLength) =>
        LET types == current_tei_writer_mapping_keys
            outside(l) == l # OLabel /\ ~InCatalog(l)
            sumTP == SumOver(performance_dict.TP, types)
            sumFP == SumOver(performance_dict.FP, types)
            sumFN == SumOver(performance_dict.FN, types)
        IN  /\ sumTP <= performance_dict.TP_all
            /\ sumFP <= performance_dict.FP_all
            /\ sumFN <= performance_dict.FN_all
            /\ performance_dict.TP_all - sumTP = Cardinality({i \in Positions :
                  Gold(i) = Pred(i) /\ outside(Gold(i))})
            /\ performance_dict.FP_all - sumFP = Cardinality({i \in Positions :
                  Gold(i) # Pred(i) /\ outside(Pred(i))})
            /\ performance_dict.FN_all - sumFN = Cardinality({i \in Positions :
                  Pred(i) = OLabel /\ outside(Gold(i))})
            /\ (\A i \in Positions : ~outside(Gold(i)) /\ ~outside(Pred(i))) =>
                  /\ sumTP = performance_dict.TP_all
                  /\ sumFP = performance_dict.FP_all
                  /\ sumFN = performance_dict.FN_all

C10_Witness ==
    /\ pc = "measured"
    /\ flat_true.items = <<PyStr("B-Person"), PyStr("B-Ort-Objekt")>>
    /\ flat_pred.items = <<PyStr("B-Person"), PyStr("B-Ort-Objekt")>>
    /\ performance_dict.TP_all = 2
    /\ performance_dict.TP["Ort-Objekt"] = 1
    /\ SumOver(performance_dict.TP, current_tei_writer_mapping_keys) = 1

\* a value holds the value r at some depth
RECURSIVE Holds(_, _)
Holds(v, r) ==
    \/ v = r
    \/ \E i \in 1..Len(v.items) : Holds(v.items[i], r)

\* C3: a run whose input holds a token record of 2 or of 4 elements fails.
C3_MalformedRecordFailsRun ==
    (\E r \in MalformedRecords : Holds(gold_in, r) \/ Holds(pred_in, r))
        => pc # "done"

\* the labels of the 3-element records of a value, UNK read as O, in order
RECURSIVE RecordLabels(_)
RecordLabels(v) ==
    IF v \in Records
    THEN <<IF v.items[2] = PyStr("UNK") THEN OLabel ELSE v.items[2]>>
    ELSE Concat([i \in 1..Len(v.items) |-> RecordLabels(v.items[i])])

HoldsOnlyRecords(v) ==
    /\ v \notin FlatLabelLists
    /\ \A r \in MalformedRecords : ~Holds(v, r)

\* C4: records nested at depth 1, 2 or 3 come out of normalizing, unpacking
\* and flattening as one label per record, in order, none dropped or cut.
C4_OneLabelPerRecord ==
    (HoldsOnlyRecords(gold_in) /\ Flattened)
        => flat_true.items = RecordLabels(gold_in)

\* C5: the normalizer leaves an already-flat list of bare labels unchanged.
C5_FlatLabelListUnchanged ==
    (gold_in \in FlatLabelLists /\ pc = "normalized")
        => y_true_file_content = gold_in

\* C6: normalizing the result of the normalizer changes nothing: the content
\* after the second pass is the content of one pass over the input.
C6_NormalizerIdempotent ==
    pc = "renormalized" =>
        y_true_file_content =
            delete_idx_0_and_2_of_string_list_with_3_members(gold_in)

C6_Witness ==
    /\ pc = "renormalized"
    /\ gold_in = PyList(<<PyList(<<Record("UNK"), Record("B-Ort-Objekt")>>)>>)
    /\ y_true_file_content =
          PyList(<<PyList(<<PyList(<<OLabel>>),
                            PyList(<<PyStr("B-Ort-Objekt")>>)>>)>>)

====
